---- MODULE Spec2Model ----
(***************************************************************************)
(* State-machine model of src/main.py: the AssistantManager session loop,  *)
(* one conversation turn (process_user_input), the pre-turn cancellation   *)
(* (cancel_active_runs), the run poller (wait_for_completion) and thread   *)
(* reset (reset_thread / create_new_thread).                               *)
(*                                                                         *)
(* The program is single-threaded; pc is its position.  The remote         *)
(* assistant service is the environment: every remote call either returns  *)
(* or raises, and the status of a remote run advances on its own           *)
(* (RemoteAdvance) between the program's steps.  The thread store and the  *)
(* tool registry live in modules of the repository that are not part of    *)
(* src/ (tools, tools.file_tools); they are modelled from their contract.  *)
(***************************************************************************)
EXTENDS Integers, Sequences, FiniteSets, TLC

\* ---------------------------------------------------------------- bounds
\* User commands read by one session.
MaxTurns == 2
\* Tool calls attached to one requires_action status.
MaxCalls == 2
\* wait_for_completion's timeout, in sleep units: the code's default of 300,
\* scaled down (the loop only compares the elapsed time with it).
Timeout == 3

\* ------------------------------------------------------ program constants
\* time.sleep(1)
SleepInterval == 1

\* What a blocking remote call adds to the clock, in sleep units: it returns
\* within the current unit, or a unit later.
CallTimes == {0, SleepInterval}

NoThread == 0
NoRun == 0

Statuses ==
    {"queued", "in_progress", "requires_action", "completed", "failed",
     "cancelled", "expired"}
ActiveStatuses == {"queued", "in_progress"}
FailedStatuses == {"failed", "cancelled", "expired"}
TerminalStatuses == {"completed"} \cup FailedStatuses
NonTerminalStatuses == Statuses \ TerminalStatuses

CallIds == 1..MaxCalls
\* The pending tool calls of a run: call ids, distinct, in the remote's order.
CallSeqs ==
    {s \in UNION {[1..n -> CallIds] : n \in 0..MaxCalls} :
        \A i, j \in 1..Len(s) : i # j => s[i] # s[j]}

NoFetch == [status |-> "none", calls |-> <<>>]

VARIABLES
    pc,            \* position of the program
    frame,         \* enclosing handler: "init" (main), "try", "except" (process_user_input)
    exit_code,     \* -1 while running, else the process exit code
    thread_id,     \* self.thread_id
    stored,        \* the persisted thread identifier (thread store), NoThread if none
    threads,       \* remote: number of threads created so far; thread ids are 1..threads
    runs,          \* remote: the runs of thread thread_id, oldest first; run id = index
    has_calls,     \* remote: the polled run, in requires_action, has pending tool calls
    turns,         \* commands read so far
    run_id,        \* wait_for_completion's run_id
    elapsed,       \* time.time() - start_time
    run,           \* wait_for_completion's local `run`
    result,        \* wait_for_completion's return value: "pending", "Run", "None"
    notice,        \* the system message printed by the poller on a failure exit
    listing,       \* cancel_active_runs: the rest of runs.data still to visit
    hist           \* history of the current turn (observations only)

vars ==
    <<pc, frame, exit_code, thread_id, stored, threads, runs, has_calls, turns,
      run_id, elapsed, run, result, notice, listing, hist>>

pollVars == <<run_id, elapsed, run, result, notice>>
storeVars == <<thread_id, stored, threads>>
remoteVars == <<runs, has_calls>>

PollPcs == {"wfc_loop", "wfc_retrieve", "wfc_tools", "wfc_sleep"}

NewHist(cmd) ==
    [cmd |-> cmd,
     typed |-> "",                 \* the input as typed (kept for exit / quit)
     start_thread |-> thread_id,   \* self.thread_id when the command was read
     start_stored |-> stored,
     start_threads |-> threads,    \* remote threads existing when the command was read
     raised |-> {},                \* sites that raised during this turn
     log |-> <<>>,                 \* thread store / remote thread events, in order
     msgs |-> 0,                   \* user messages posted
     created |-> 0,                \* runs created
     busy |-> FALSE,               \* a run was created while an earlier run was non-terminal
     displayed |-> 0,              \* assistant replies printed
     fetches |-> 0,                \* successful runs.retrieve calls
     ra |-> 0,                     \* ... that observed requires_action
     active |-> 0,                 \* ... that observed queued / in_progress
     fetched |-> NoFetch,          \* what the current loop iteration fetched
     registry |-> 0,               \* handle_tool_calls invocations
     submits |-> 0,                \* submit_tool_outputs requests issued
     submitted |-> <<>>,           \* ... those of the current loop iteration
     returns |-> 0,                \* returns of wait_for_completion
     completedInTime |-> FALSE,    \* the polled run became completed while elapsed < timeout
     cancels |-> {},               \* runs for which a cancel request was issued
     listed |-> <<>>]              \* what runs.list reported

Init ==
    /\ pc = "start"
    /\ frame = "init"
    /\ exit_code = -1
    /\ thread_id = NoThread
    /\ stored \in {NoThread, 1}
    /\ threads = (IF stored = NoThread THEN 0 ELSE 1)
    /\ runs = <<>>
    /\ has_calls = FALSE
    /\ turns = 0
    /\ run_id = NoRun
    /\ elapsed = 0
    /\ run = NoFetch
    /\ result = "pending"
    /\ notice = "none"
    /\ listing = <<>>
    /\ hist = [NewHist("none") EXCEPT !.start_thread = NoThread]

\* ------------------------------------------------------------ exceptions
\* Mutant of Raise: the top-level handlers report the error and let the
\* process end normally.
C14_Mutant_Raise(site, h) ==
    /\ hist' = [h EXCEPT !.raised = @ \cup {site}]
    /\ IF frame = "try"
       THEN /\ pc' = "reset_clear"
            /\ frame' = "except"
            /\ exit_code' = exit_code
       ELSE /\ pc' = "done"
            /\ frame' = frame
            /\ exit_code' = 0

\* Mutant of Raise: the handler of process_user_input reports the error and
\* returns True without resetting the thread.
C7_Mutant_Raise(site, h) ==
    /\ hist' = [h EXCEPT !.raised = @ \cup {site}]
    /\ IF frame = "try"
       THEN /\ pc' = "prompt"
            /\ frame' = "except"
            /\ exit_code' = exit_code
       ELSE /\ pc' = "done"
            /\ frame' = frame
            /\ exit_code' = 1

\* An exception leaving the statement at `site`.  Inside the try block of
\* process_user_input it reaches the handler, which starts reset_thread; raised
\* by the handler itself it leaves process_user_input and reaches run()'s
\* handler (sys.exit(1)); raised in __init__ it reaches main()'s handler.
Raise(site, h) ==
    /\ hist' = [h EXCEPT !.raised = @ \cup {site}]
    /\ IF frame = "try"
       THEN /\ pc' = "reset_clear"
            /\ frame' = "except"
            /\ exit_code' = exit_code
       ELSE /\ pc' = "done"
            /\ frame' = frame
            /\ exit_code' = 1

Logged(h, event) == [h EXCEPT !.log = Append(@, event)]

\* --------------------------------------------------------------- startup
Configs == {"ok", "no_api_key", "no_assistant_id", "retrieve_fails"}

\* Mutant of NeedsThread: startup creates a thread whatever was persisted.
C15_Mutant_NeedsThread(id) == TRUE

\* if not self.thread_id: self.create_new_thread()
NeedsThread(id) == id = NoThread

\* AssistantManager.__init__: the configuration checks and the assistant
\* retrieval, each of which raises a ValueError that reaches main()'s handler
\* (sys.exit(1)); only then read_thread_id().
Startup ==
    /\ pc = "start"
    /\ \E cfg \in Configs :
        IF cfg = "ok"
        THEN /\ thread_id' = stored
             /\ pc' = (IF NeedsThread(stored) THEN "create_thread" ELSE "prompt")
             /\ exit_code' = exit_code
             /\ hist' = hist
        ELSE /\ thread_id' = thread_id
             /\ pc' = "done"
             /\ exit_code' = 1
             /\ hist' = [hist EXCEPT !.raised = {cfg}]
    /\ UNCHANGED <<frame, stored, threads, remoteVars, turns, pollVars, listing>>

\* ---------------------------------------------------------- thread reset
\* Mutant of AfterClear: reset_thread saves without creating a thread.
C9_Mutant_AfterClear == "save_thread"

\* reset_thread: clear_thread_id() comes first, then create_new_thread().
AfterClear == "create_thread"

ClearThread ==
    /\ pc = "reset_clear"
    /\ stored' = NoThread
    /\ hist' = Logged(hist, "clear")
    /\ pc' = AfterClear
    /\ UNCHANGED <<frame, exit_code, thread_id, threads, remoteVars, turns, pollVars,
                   listing>>

\* create_new_thread: threads.create(), then self.thread_id = thread.id.
\* The remote service hands out an identifier it never used before; the new
\* thread has no runs (those of the thread left behind are never read again).
CreateThread ==
    /\ pc = "create_thread"
    /\ \/ /\ threads' = threads + 1
          /\ thread_id' = threads + 1
          /\ runs' = <<>>
          /\ hist' = Logged(hist, "create")
          /\ pc' = "save_thread"
          /\ UNCHANGED <<frame, exit_code>>
       \/ /\ Raise("thread_create", hist)
          /\ UNCHANGED <<threads, thread_id, runs>>
    /\ UNCHANGED <<stored, has_calls, turns, pollVars, listing>>

\* Mutant of SaveThread: create_new_thread does not persist the identifier.
C19_Mutant_SaveThread ==
    /\ pc = "save_thread"
    /\ stored' = stored
    /\ hist' = Logged(hist, "save")
    /\ pc' = "prompt"
    /\ UNCHANGED <<frame, exit_code, thread_id, threads, remoteVars, turns,
                   pollVars, listing>>

\* create_new_thread: save_thread_id(self.thread_id) overwrites the persisted
\* identifier; the caller then returns to the session loop (from __init__
\* into run(), from process_user_input with True).
SaveThread ==
    /\ pc = "save_thread"
    /\ \/ /\ stored' = thread_id
          /\ hist' = Logged(hist, "save")
          /\ pc' = "prompt"
          /\ UNCHANGED <<frame, exit_code>>
       \/ /\ Raise("save", hist)
          /\ stored' = stored
    /\ UNCHANGED <<thread_id, threads, remoteVars, turns, pollVars, listing>>

\* ---------------------------------------------------------- session loop
Inputs == {"exit", "Exit", "QUIT", "quit", "reset", "RESET", "hello", "exits"}

\* Mutant of Lower: the input is compared as typed.
C13_Mutant_Lower(s) == s

\* str.lower() on the inputs above.
Lower(s) ==
    CASE s \in {"exit", "Exit"} -> "exit"
      [] s \in {"QUIT", "quit"} -> "quit"
      [] s \in {"reset", "RESET"} -> "reset"
      [] OTHER -> s

\* The branch process_user_input takes for an input.
Command(user_input) ==
    IF Lower(user_input) \in {"exit", "quit"} THEN "exit"
    ELSE IF Lower(user_input) = "reset" THEN "reset"
    ELSE "message"

\* A turn begins: no run is polled (the tool calls of a run that is no longer
\* polled are never fetched again).
ResetPoll ==
    /\ has_calls' = FALSE
    /\ run_id' = NoRun
    /\ elapsed' = 0
    /\ run' = NoFetch
    /\ result' = "pending"
    /\ notice' = "none"

\* run(): get_user_input(), then process_user_input on exit / quit: it
\* returns False, the loop breaks and main() returns.
ReadExit ==
    /\ pc = "prompt"
    /\ \E user_input \in Inputs :
          /\ Command(user_input) = "exit"
          /\ hist' = [NewHist("exit") EXCEPT !.typed = user_input]
    /\ frame' = "try"
    /\ pc' = "done"
    /\ exit_code' = 0
    /\ turns' = turns + 1
    /\ ResetPoll
    /\ UNCHANGED <<storeVars, runs, listing>>

\* main(): except KeyboardInterrupt.  The interrupt is raised at any point of
\* the program; no `except Exception` handler catches it, so it reaches main(),
\* which prints the farewell and returns: exit code 0.  The process is over:
\* what it held in memory about the turn is gone, the persisted identifier
\* and the remote threads and runs stay as they are.
KeyboardInterrupt ==
    /\ pc # "done"
    /\ hist' = NewHist("interrupt")
    /\ frame' = "init"
    /\ pc' = "done"
    /\ exit_code' = 0
    /\ listing' = <<>>
    /\ ResetPoll
    /\ UNCHANGED <<storeVars, runs, turns>>

\* process_user_input on reset: reset_thread() inside the try block.
ReadReset ==
    /\ pc = "prompt"
    /\ turns < MaxTurns
    /\ \E user_input \in Inputs : Command(user_input) = "reset"
    /\ hist' = NewHist("reset")
    /\ frame' = "try"
    /\ pc' = "reset_clear"
    /\ turns' = turns + 1
    /\ ResetPoll
    /\ UNCHANGED <<exit_code, storeVars, runs, listing>>

\* process_user_input on any other input: an ordinary turn, which starts
\* with cancel_active_runs().
ReadMessage ==
    /\ pc = "prompt"
    /\ turns < MaxTurns
    /\ \E user_input \in Inputs : Command(user_input) = "message"
    /\ hist' = NewHist("message")
    /\ frame' = "try"
    /\ pc' = "cancel_list"
    /\ turns' = turns + 1
    /\ ResetPoll
    /\ UNCHANGED <<exit_code, storeVars, runs, listing>>

\* --------------------------------------------------- cancel_active_runs
RECURSIVE RunsData(_)
\* runs.list(thread_id).data: the first n runs of the thread, newest first,
\* each with the status it has now.
RunsData(n) ==
    IF n = 0 THEN <<>>
    ELSE <<[id |-> n, status |-> runs[n].status]>> \o RunsData(n - 1)

\* if run.status in ["queued", "in_progress"]
CancelEligible(status) == status \in {"queued", "in_progress"}

\* runs.list(); an exception is caught by cancel_active_runs itself, which
\* then returns to process_user_input.
CancelList ==
    /\ pc = "cancel_list"
    /\ \/ /\ listing' = RunsData(Len(runs))
          /\ hist' = [hist EXCEPT !.listed = RunsData(Len(runs))]
          /\ pc' = "cancel_loop"
       \/ /\ listing' = <<>>
          /\ hist' = [hist EXCEPT !.raised = @ \cup {"list"}]
          /\ pc' = "post_message"
    /\ UNCHANGED <<frame, exit_code, storeVars, remoteVars, turns, pollVars>>

\* One iteration of `for run in runs.data`: runs.cancel() for a listed run
\* that was queued or in_progress; an exception ends the whole loop.
CancelStep ==
    /\ pc = "cancel_loop"
    /\ IF listing = <<>>
       THEN /\ pc' = "post_message"
            /\ UNCHANGED <<listing, runs, hist>>
       ELSE IF ~CancelEligible(Head(listing).status)
       THEN /\ listing' = Tail(listing)
            /\ UNCHANGED <<pc, runs, hist>>
       ELSE \/ /\ runs[Head(listing).id].status \in NonTerminalStatuses
               /\ runs' = [runs EXCEPT ![Head(listing).id].status = "cancelled"]
               /\ hist' = [hist EXCEPT !.cancels = @ \cup {Head(listing).id}]
               /\ listing' = Tail(listing)
               /\ pc' = pc
            \/ /\ hist' = [hist EXCEPT !.cancels = @ \cup {Head(listing).id},
                                       !.raised = @ \cup {"cancel"}]
               /\ listing' = <<>>
               /\ pc' = "post_message"
               /\ runs' = runs
    /\ UNCHANGED <<frame, exit_code, storeVars, has_calls, turns, pollVars>>

\* ------------------------------------------------- process_user_input
\* messages.create(thread_id, role="user", content=user_input)
PostMessage ==
    /\ pc = "post_message"
    /\ \/ /\ hist' = [hist EXCEPT !.msgs = @ + 1]
          /\ pc' = "create_run"
          /\ UNCHANGED <<frame, exit_code>>
       \/ Raise("post", hist)
    /\ UNCHANGED <<storeVars, remoteVars, turns, pollVars, listing>>

\* Whether the current thread holds a run that is not in a terminal status.
Busy == \E r \in 1..Len(runs) : runs[r].status \in NonTerminalStatuses

\* runs.create(thread_id, assistant_id); the new run starts queued.
CreateRun ==
    /\ pc = "create_run"
    /\ \/ /\ runs' = Append(runs, [status |-> "queued"])
          /\ has_calls' = FALSE
          /\ run_id' = Len(runs) + 1
          /\ hist' = [hist EXCEPT !.created = @ + 1, !.busy = Busy]
          /\ pc' = "wfc_start"
          /\ UNCHANGED <<frame, exit_code>>
       \/ /\ Raise("create_run", hist)
          /\ UNCHANGED <<remoteVars, run_id>>
    /\ UNCHANGED <<storeVars, turns, elapsed, run, result, notice,
                   listing>>

\* ------------------------------------------------- wait_for_completion
\* start_time = time.time()
WfcStart ==
    /\ pc = "wfc_start"
    /\ elapsed' = 0
    /\ pc' = "wfc_loop"
    /\ UNCHANGED <<frame, exit_code, storeVars, remoteVars, turns, run_id, run,
                   result, notice, listing, hist>>

\* Mutant of Return: a failure is reported and the run is polled again.
C11_Mutant_Return(value, message, h) ==
    /\ result' = value
    /\ notice' = message
    /\ hist' = [h EXCEPT !.returns = @ + 1]
    /\ pc' = (IF value = "None" THEN "wfc_loop" ELSE "wfc_return")

\* A return of wait_for_completion: the value, and the message printed.
Return(value, message, h) ==
    /\ result' = value
    /\ notice' = message
    /\ hist' = [h EXCEPT !.returns = @ + 1]
    /\ pc' = "wfc_return"

\* Mutant of LoopTest: while True.
C17_Mutant_LoopTest(e) == TRUE

\* Mutant of LoopTest: the loop gives up one sleep early.
C3_Mutant_LoopTest(e) == e + SleepInterval < Timeout

\* while time.time() - start_time < timeout
LoopTest(e) == e < Timeout

\* The loop test; when it fails: "Run timed out", return None.
WfcLoop ==
    /\ pc = "wfc_loop"
    /\ IF LoopTest(elapsed)
       THEN /\ pc' = "wfc_retrieve"
            /\ UNCHANGED <<result, notice, hist>>
       ELSE Return("None", "Run timed out", hist)
    /\ UNCHANGED <<frame, exit_code, storeVars, remoteVars, turns, run_id,
                   elapsed, run, listing>>

\* Mutant of StatusBranch: a queued or in_progress run is fetched again at
\* once, without the sleep.
C18_Mutant_StatusBranch(status) ==
    IF status = "completed" THEN "return_run"
    ELSE IF status = "requires_action" THEN "wfc_tools"
    ELSE IF status \in {"failed", "cancelled", "expired"} THEN "return_none"
    ELSE "wfc_loop"

\* Mutant of StatusBranch: "expired" is missing from the list of failures.
C1_Mutant_StatusBranch(status) ==
    IF status = "completed" THEN "return_run"
    ELSE IF status = "requires_action" THEN "wfc_tools"
    ELSE IF status \in {"failed", "cancelled"} THEN "return_none"
    ELSE "wfc_sleep"

\* Mutant of StatusBranch: the completed branch is missing.
C2_Mutant_StatusBranch(status) ==
    IF status = "requires_action" THEN "wfc_tools"
    ELSE IF status \in {"failed", "cancelled", "expired"} THEN "return_none"
    ELSE "wfc_sleep"

\* The if / elif chain on run.status: where the iteration goes.
StatusBranch(status) ==
    IF status = "completed" THEN "return_run"
    ELSE IF status = "requires_action" THEN "wfc_tools"
    ELSE IF status \in {"failed", "cancelled", "expired"} THEN "return_none"
    ELSE "wfc_sleep"

Observed(h, r) ==
    [h EXCEPT !.fetches = @ + 1,
              !.ra = @ + (IF r.status = "requires_action" THEN 1 ELSE 0),
              !.active = @ + (IF r.status \in ActiveStatuses THEN 1 ELSE 0),
              !.fetched = r,
              !.submitted = <<>>]

\* run.required_action.submit_tool_outputs.tool_calls of a fetched run: the
\* ids of the pending calls, which the remote service chose.
FetchedCalls(status) ==
    IF status = "requires_action"
    THEN {c \in CallSeqs : (c # <<>>) = has_calls}
    ELSE {<<>>}

\* runs.retrieve(thread_id, run_id), which takes d units of time, and the
\* branch on the fetched status.  An exception leaves wait_for_completion.
WfcRetrieve ==
    /\ pc = "wfc_retrieve"
    /\ \/ \E d \in CallTimes : \E c \in FetchedCalls(runs[run_id].status) :
            LET r == [status |-> runs[run_id].status, calls |-> c]
                to == StatusBranch(r.status)
            IN  /\ elapsed' = elapsed + d
                /\ run' = r
                /\ IF to = "return_run"
                   THEN Return("Run", "none", Observed(hist, r))
                   ELSE IF to = "return_none"
                   THEN Return("None", "Run ended with status", Observed(hist, r))
                   ELSE /\ pc' = to
                        /\ hist' = Observed(hist, r)
                        /\ UNCHANGED <<result, notice>>
                /\ UNCHANGED <<frame, exit_code>>
       \/ /\ Raise("retrieve", hist)
          /\ UNCHANGED <<elapsed, run, result, notice>>
    /\ UNCHANGED <<storeVars, remoteVars, turns, run_id, listing>>

\* tools.handle_tool_calls(run): one (call id, output) pair per pending call,
\* in the order of the calls.
HandleToolCalls(calls) ==
    [i \in 1..Len(calls) |->
        [tool_call_id |-> calls[i], output |-> <<"output", calls[i]>>]]

\* Mutant of AfterToolError: the error is reported and polling goes on.
C10_Mutant_AfterToolError == "wfc_sleep"

\* except Exception in the requires_action branch: where the poller goes.
AfterToolError == "return_none"

\* Mutant of SubmitRequests: one request per tool output.
C4_Mutant_SubmitRequests(outputs) ==
    [i \in 1..Len(outputs) |-> <<outputs[i]>>]

\* The submit_tool_outputs requests one requires_action iteration issues for
\* its tool outputs: `if tool_outputs:` one request carrying all of them.
SubmitRequests(outputs) == IF outputs # <<>> THEN <<outputs>> ELSE <<>>

RECURSIVE Requests(_)
Requests(batches) ==
    IF batches = <<>> THEN <<>>
    ELSE <<[thread_id |-> thread_id, run_id |-> run_id,
            tool_outputs |-> Head(batches)]>> \o Requests(Tail(batches))

\* The requires_action branch: tool_outputs = handle_tool_calls(run), then
\* run = submit_tool_outputs(thread_id, run_id, tool_outputs) when there are
\* outputs; the remote run then leaves requires_action.  An exception of
\* either call is caught by the branch's handler, which ends the poll.
WfcTools ==
    /\ pc = "wfc_tools"
    /\ LET outputs == HandleToolCalls(run.calls)
           reqs == Requests(SubmitRequests(outputs))
           called == [hist EXCEPT !.registry = @ + 1]
           sent == [called EXCEPT !.submits = @ + Len(reqs), !.submitted = reqs]
       IN  \/ \* a tool raises
              /\ run.calls # <<>>
              /\ IF AfterToolError = "return_none"
                 THEN Return("None", "Error handling tool calls",
                             [called EXCEPT !.raised = @ \cup {"tools"}])
                 ELSE /\ pc' = AfterToolError
                      /\ hist' = [called EXCEPT !.raised = @ \cup {"tools"}]
                      /\ UNCHANGED <<result, notice>>
              /\ UNCHANGED <<remoteVars, run>>
           \/ \* no outputs: nothing is submitted
              /\ reqs = <<>>
              /\ hist' = called
              /\ pc' = "wfc_sleep"
              /\ UNCHANGED <<remoteVars, run, result, notice>>
           \/ \* the outputs are submitted
              /\ reqs # <<>>
              /\ runs[run_id].status = "requires_action"
              /\ runs' = [runs EXCEPT ![run_id].status = "queued"]
              /\ has_calls' = FALSE
              /\ run' = [status |-> "queued", calls |-> <<>>]
              /\ hist' = sent
              /\ pc' = "wfc_sleep"
              /\ UNCHANGED <<result, notice>>
           \/ \* submit_tool_outputs raises
              /\ reqs # <<>>
              /\ Return("None", "Error handling tool calls",
                        [sent EXCEPT !.raised = @ \cup {"submit"}])
              /\ UNCHANGED <<remoteVars, run>>
    /\ UNCHANGED <<frame, exit_code, storeVars, turns, run_id, elapsed, listing>>

\* time.sleep(1), the last statement of the loop body: the iteration is over.
WfcSleep ==
    /\ pc = "wfc_sleep"
    /\ elapsed' = elapsed + SleepInterval
    /\ hist' = [hist EXCEPT !.fetched = NoFetch, !.submitted = <<>>]
    /\ pc' = "wfc_loop"
    /\ UNCHANGED <<frame, exit_code, storeVars, remoteVars, turns, run_id, run,
                   result, notice, listing>>

\* Mutant of ShowsReply: the reply is fetched whatever the poller returned.
C12_Mutant_ShowsReply(value) == TRUE

\* Mutant of ShowsReply: the test is inverted.
C5_Mutant_ShowsReply(value) == value # "Run"

\* if completed_run := self.wait_for_completion(run.id): only a run is truthy.
ShowsReply(value) == value = "Run"

\* Back in process_user_input: fetch the reply, or return True at once.
AfterWait ==
    /\ pc = "wfc_return"
    /\ pc' = (IF ShowsReply(result) THEN "list_messages" ELSE "prompt")
    /\ hist' = [hist EXCEPT !.fetched = NoFetch, !.submitted = <<>>]
    /\ UNCHANGED <<frame, exit_code, storeVars, remoteVars, turns, pollVars,
                   listing>>

\* The current thread holds an assistant message once one of its runs completed.
HasAssistantMessage == \E r \in 1..Len(runs) : runs[r].status = "completed"

\* messages.list(thread_id) and the print of the first assistant message.
ListMessages ==
    /\ pc = "list_messages"
    /\ \/ /\ hist' = [hist EXCEPT !.displayed =
                        @ + (IF HasAssistantMessage THEN 1 ELSE 0)]
          /\ pc' = "prompt"
          /\ UNCHANGED <<frame, exit_code>>
       \/ Raise("messages", hist)
    /\ UNCHANGED <<storeVars, remoteVars, turns, pollVars, listing>>

\* ------------------------------------------------------- remote service
\* The statuses a run can move to without a request of this program (it
\* expires, or another client cancels it).
NextStatuses(status) ==
    CASE status = "queued" -> {"in_progress", "cancelled", "expired"}
      [] status = "in_progress" ->
            {"requires_action", "completed", "failed", "cancelled", "expired"}
      [] status = "requires_action" -> {"cancelled", "expired"}
      [] OTHER -> {}

\* Positions between reading a message and creating its run: the only ones
\* where the program reads the status of runs other than the one it polls.
PreRunPcs == {"cancel_list", "cancel_loop", "post_message", "create_run"}

\* The remote service advances the run being polled; entering
\* requires_action attaches the pending tool calls.  (A run advances at any
\* moment; the steps outside the poll do not read the status of this run, so
\* its progress there is taken when the next turn begins.)
RemoteAdvancePolled ==
    /\ pc \in PollPcs \cup {"wfc_start"}
    /\ \E s \in NextStatuses(runs[run_id].status) :
        \E c \in (IF s = "requires_action" THEN BOOLEAN ELSE {FALSE}) :
            /\ runs' = [runs EXCEPT ![run_id].status = s]
            /\ has_calls' = c
            /\ hist' = IF s = "completed" /\ elapsed < Timeout
                       THEN [hist EXCEPT !.completedInTime = TRUE]
                       ELSE hist
    /\ UNCHANGED <<pc, frame, exit_code, storeVars, turns, pollVars, listing>>

\* The remote service advances a run of the current thread left behind by an
\* earlier turn, before the current turn creates its own run.  (Its tool calls
\* are never fetched.)
RemoteAdvanceStale ==
    /\ pc \in PreRunPcs
    /\ \E r \in 1..Len(runs) :
        \E s \in NextStatuses(runs[r].status) :
            runs' = [runs EXCEPT ![r].status = s]
    /\ UNCHANGED <<pc, frame, exit_code, storeVars, has_calls, turns, pollVars,
                   listing, hist>>

Next ==
    \/ Startup
    \/ ClearThread
    \/ CreateThread
    \/ SaveThread
    \/ ReadExit
    \/ KeyboardInterrupt
    \/ ReadReset
    \/ ReadMessage
    \/ CancelList
    \/ CancelStep
    \/ PostMessage
    \/ CreateRun
    \/ WfcStart
    \/ WfcLoop
    \/ WfcRetrieve
    \/ WfcTools
    \/ WfcSleep
    \/ AfterWait
    \/ ListMessages
    \/ RemoteAdvancePolled
    \/ RemoteAdvanceStale

Spec == Init /\ [][Next]_vars

\* ------------------------------------------- cancel_active_runs, alone
\* The runs an earlier part of the session (or an earlier session on the
\* persisted thread) left on the current thread: one per earlier turn, each
\* in whatever status the remote service reports for it.
EarlierRuns == UNION {[1..n -> [status : Statuses]] : n \in 0..MaxTurns}

\* process_user_input has read an ordinary message and calls
\* cancel_active_runs() on a thread that holds earlier runs.
CancelInit ==
    /\ pc = "cancel_list"
    /\ frame = "try"
    /\ exit_code = -1
    /\ thread_id = 1
    /\ stored = 1
    /\ threads = 1
    /\ runs \in EarlierRuns
    /\ has_calls = FALSE
    /\ turns = MaxTurns
    /\ run_id = NoRun
    /\ elapsed = 0
    /\ run = NoFetch
    /\ result = "pending"
    /\ notice = "none"
    /\ listing = <<>>
    /\ hist = NewHist("message")

\* The cancel step up to the posting of the message.
CancelNext ==
    \/ CancelList
    \/ CancelStep
    \/ PostMessage
    \/ RemoteAdvanceStale

CancelSpec == CancelInit /\ [][CancelNext]_vars

\* ------------------------------------------ wait_for_completion, alone
\* process_user_input has posted the message and created the run (queued)
\* on a thread without earlier runs, and calls wait_for_completion(run.id).
PollInit ==
    /\ pc = "wfc_start"
    /\ frame = "try"
    /\ exit_code = -1
    /\ thread_id = 1
    /\ stored = 1
    /\ threads = 1
    /\ runs = <<[status |-> "queued"]>>
    /\ has_calls = FALSE
    /\ turns = 1
    /\ run_id = 1
    /\ elapsed = 0
    /\ run = NoFetch
    /\ result = "pending"
    /\ notice = "none"
    /\ listing = <<>>
    /\ hist = [NewHist("message") EXCEPT !.msgs = 1, !.created = 1]

\* A step of the poller.
PollStep ==
    \/ WfcStart
    \/ WfcLoop
    \/ WfcRetrieve
    \/ WfcTools
    \/ WfcSleep

PollNext ==
    \/ PollStep
    \/ RemoteAdvancePolled

\* The program is the only thread and every statement of the loop ends: each
\* remote call and each tool execution returns or raises, and time.sleep(1)
\* is over after one unit.  So the poller's next step is always taken; the
\* remote service is under no obligation.
PollSpec == PollInit /\ [][PollNext]_vars /\ WF_vars(PollStep)

\* ================================================================ claims

\* ---------------------------------------------------------------- C1
\* C1: in wait_for_completion, an iteration whose fetch observed failed,
\* cancelled or expired has returned None ("Run ended with status") at that
\* fetch: it submitted nothing and it is never at the sleep step.
C1_FailedStatusReturnsAtOnce ==
    hist.fetched.status \in FailedStatuses =>
        /\ pc = "wfc_return"
        /\ result = "None"
        /\ notice = "Run ended with status"
        /\ hist.submitted = <<>>
        /\ hist.returns = 1

C1_Witness ==
    /\ pc = "wfc_return"
    /\ hist.fetched.status = "expired"
    /\ hist.fetches >= 2
    /\ hist.ra >= 1

\* ---------------------------------------------------------------- C2
\* C2 as stated: a run that became completed while the elapsed time was below
\* the timeout makes wait_for_completion return success.
C2_CompletedInTimeReturnsRun ==
    (pc = "wfc_return" /\ hist.completedInTime) => result = "Run"

\* C2, amended: an iteration whose fetch observed completed has returned the
\* run at that fetch, wait_for_completion returns at most once, and it returns
\* a run only for a run that is completed, whatever the number of
\* requires_action fetches before.
C2_FetchedCompletedReturnsRun ==
    /\ hist.fetched.status = "completed" => (pc = "wfc_return" /\ result = "Run")
    /\ hist.returns <= 1
    /\ pc = "wfc_return" => hist.returns = 1
    /\ result = "Run" =>
          /\ hist.returns = 1
          /\ runs # <<>> => runs[run_id].status = "completed"

C2_Witness ==
    /\ pc = "wfc_return"
    /\ result = "Run"
    /\ hist.fetched.status = "completed"
    /\ hist.ra = 2

\* ---------------------------------------------------------------- C3
\* C3: when every fetch of a poll observed queued or in_progress, the poll
\* can only return the timeout failure (None after "Run timed out"), it
\* fetches at most timeout / sleep-interval times, and whenever the timeout
\* failure is returned the elapsed time is at least the timeout.
C3_StuckRunTimesOut ==
    /\ (pc = "wfc_return" /\ hist.active = hist.fetches) =>
          (result = "None" /\ notice = "Run timed out")
    /\ hist.fetches * SleepInterval <= Timeout
    /\ notice = "Run timed out" => (result = "None" /\ elapsed >= Timeout)

C3_Witness ==
    /\ pc = "wfc_return"
    /\ notice = "Run timed out"
    /\ hist.active = hist.fetches
    /\ hist.fetches >= 2
    /\ elapsed > Timeout

\* ---------------------------------------------------------------- C4
\* C4: an iteration that fetched requires_action with N >= 1 pending tool
\* calls and whose tools did not raise has issued exactly one
\* submit_tool_outputs request, for the polled run and the current thread,
\* carrying N outputs whose call ids are those of the pending calls in the
\* same order; no iteration issues more than one request.
C4_OneBatchPerFetch ==
    /\ Len(hist.submitted) <= 1
    /\ hist.submits <= hist.ra
    /\ (/\ pc \in {"wfc_sleep", "wfc_return"}
        /\ hist.fetched.status = "requires_action"
        /\ hist.fetched.calls # <<>>
        /\ "tools" \notin hist.raised) =>
          /\ Len(hist.submitted) = 1
          /\ hist.submitted[1].run_id = run_id
          /\ hist.submitted[1].thread_id = thread_id
          /\ Len(hist.submitted[1].tool_outputs) = Len(hist.fetched.calls)
          /\ \A i \in 1..Len(hist.fetched.calls) :
                hist.submitted[1].tool_outputs[i].tool_call_id =
                    hist.fetched.calls[i]

C4_Witness ==
    /\ pc = "wfc_sleep"
    /\ hist.fetched.calls = <<2, 1>>
    /\ Len(hist.submitted) = 1
    /\ hist.submits = 2

\* ---------------------------------------------------------------- C5
\* C5: the tool registry is invoked once for every fetch that observed
\* requires_action and never otherwise; a poll that returned the run after
\* exactly one requires_action fetch invoked the registry once and submitted
\* once, and the turn then displays an assistant reply (when listing the
\* messages does not raise).
C5_OneToolRoundTrip ==
    /\ hist.registry = hist.ra - (IF pc = "wfc_tools" THEN 1 ELSE 0)
    /\ pc = "wfc_tools" => hist.fetched.status = "requires_action"
    /\ (result = "Run" /\ hist.ra = 1) => (hist.registry = 1 /\ hist.submits = 1)
    /\ (pc = "prompt" /\ result = "Run" /\ "messages" \notin hist.raised) =>
          hist.displayed = 1
    /\ result # "Run" => hist.displayed = 0

C5_Witness ==
    /\ pc = "prompt"
    /\ result = "Run"
    /\ hist.active >= 1
    /\ hist.ra = 1
    /\ hist.registry = 1
    /\ hist.submits = 1
    /\ hist.displayed = 1

\* ---------------------------------------------------------------- C6
\* C6 as stated: process_user_input never creates a run on the current thread
\* while an earlier run of that thread is queued, in_progress or
\* requires_action.
C6_RunsStrictlySequential == ~hist.busy

\* ---------------------------------------------------------------- C7
ClaimedSites == {"list", "cancel", "post", "create_run", "retrieve", "submit",
                 "messages"}
\* The sites whose exception reaches the handler of process_user_input.
HandledSites == {"post", "create_run", "retrieve", "messages"}

C8_LoopSurvivesRemoteErrors ==
    (hist.cmd = "message" /\ hist.raised # {}) => (pc # "done" /\ exit_code = -1)

\* ---------------------------------------------------------------- C9
\* C9: a reset command that returns to the prompt leaves a thread identifier
\* other than the one before it, created during the command and persisted;
\* in the command's order of events every create follows a clear and every
\* save follows a create, and nothing is persisted while the thread is
\* created; the command posts no message and creates no run.
C9_ResetGivesNewThread ==
    hist.cmd = "reset" =>
        /\ hist.msgs = 0 /\ hist.created = 0 /\ hist.fetches = 0
        /\ \A i \in 1..Len(hist.log) :
              /\ hist.log[i] = "create" => (i > 1 /\ hist.log[i - 1] = "clear")
              /\ hist.log[i] = "save" => (i > 1 /\ hist.log[i - 1] = "create")
        /\ pc \in {"create_thread", "save_thread"} => stored = NoThread
        /\ pc = "prompt" =>
              /\ thread_id # hist.start_thread
              /\ thread_id > hist.start_threads
              /\ stored = thread_id
              /\ Len(hist.log) >= 3
              /\ hist.log[Len(hist.log)] = "save"

C9_Witness ==
    /\ pc = "prompt"
    /\ hist.cmd = "reset"
    /\ hist.start_thread # NoThread
    /\ thread_id # hist.start_thread
    /\ hist.log = <<"clear", "clear", "create", "save">>

\* ---------------------------------------------------------------- C10
\* C10: a tool that raises in a requires_action iteration ends the poll at
\* once with None ("Error handling tool calls"): from then on the turn issues
\* no submit_tool_outputs request and no fetch, displays no reply, keeps the
\* thread identifier in memory and persisted, and goes back to the prompt
\* without ending the session.
C10_ToolErrorEndsRunOnly ==
    /\ []("tools" \in hist.raised =>
            /\ pc \in {"wfc_return", "prompt"}
            /\ result = "None"
            /\ notice = "Error handling tool calls"
            /\ hist.displayed = 0
            /\ thread_id = hist.start_thread
            /\ stored = hist.start_stored
            /\ exit_code = -1)
    /\ [][("tools" \in hist'.raised) =>
            /\ hist'.submits = hist.submits
            /\ hist'.fetches = hist.fetches
            /\ hist'.submitted = <<>>]_vars

C10_Witness ==
    /\ pc = "prompt"
    /\ "tools" \in hist.raised
    /\ hist.fetches >= 2
    /\ hist.submits >= 1

\* ---------------------------------------------------------------- C11
\* C11: a turn posts at most one user message and creates at most one run;
\* the poller only ever addresses the run created in the turn (the newest of
\* the thread), it returns at most once, and once it has returned a failure
\* (a failed / cancelled / expired status, a tool error, the timeout) the
\* program is at no step that fetches a status, submits tool outputs, posts
\* a message or creates a run: it goes back to the prompt.
C11_NoFailedRunRetried ==
    /\ hist.msgs <= 1
    /\ hist.created <= 1
    /\ hist.returns <= 1
    /\ pc = "post_message" => hist.msgs = 0
    /\ pc = "create_run" => hist.created = 0
    /\ pc \in PollPcs \cup {"wfc_start"} =>
          /\ hist.returns = 0
          /\ hist.created = 1
          /\ run_id = Len(runs)
    /\ result = "None" =>
          /\ pc \in {"wfc_return", "prompt"}
          /\ hist.returns = 1
          /\ hist.created = 1
          /\ hist.msgs = 1

C11_Witness ==
    /\ pc = "prompt"
    /\ result = "None"
    /\ notice = "Run ended with status"
    /\ hist.fetches >= 2
    /\ run_id = 2
    /\ runs[1].status \in FailedStatuses
    /\ runs[2].status \in FailedStatuses

\* ---------------------------------------------------------------- C12
\* C12: an ordinary turn goes through cancel, post, run creation, poll and
\* display in this order: while the cancel step runs nothing is posted, and
\* once the message is posted the cancel loop has nothing left to visit; a run
\* is created only after the message was posted; statuses are fetched only
\* for a created run; the reply is fetched only after the poller returned a
\* run, never after it returned a failure; at most one reply is displayed; and
\* a turn in which no call raised is back at the prompt only after the poller
\* returned.
C12_TurnOrder ==
    hist.cmd = "message" =>
        /\ pc \in {"cancel_list", "cancel_loop", "post_message"} =>
              (hist.msgs = 0 /\ hist.created = 0 /\ hist.fetches = 0)
        /\ hist.msgs > 0 => listing = <<>>
        /\ hist.created <= hist.msgs
        /\ pc = "create_run" => hist.msgs = 1
        /\ hist.fetches > 0 => hist.created = 1
        /\ pc \in PollPcs \cup {"wfc_start"} => (hist.msgs = 1 /\ hist.created = 1)
        /\ hist.returns <= hist.created
        /\ pc = "list_messages" => (result = "Run" /\ hist.returns = 1)
        /\ hist.displayed <= hist.returns
        /\ hist.displayed = 1 => result = "Run"
        /\ (pc = "prompt" /\ hist.raised \cap HandledSites = {}) =>
              (hist.msgs = 1 /\ hist.created = 1 /\ hist.returns = 1)

C12_Witness ==
    /\ pc = "prompt"
    /\ hist.cmd = "message"
    /\ hist.cancels # {}
    /\ hist.msgs = 1
    /\ hist.created = 1
    /\ hist.fetches >= 2
    /\ hist.displayed = 1

\* ---------------------------------------------------------------- C13
\* C13: exit and quit, in any letter case, and no other input, take the exit
\* branch; once the command is read the process has ended with exit code 0
\* and has issued no remote call (no run listed or cancelled, no message
\* posted, no run created or fetched, no thread created), nothing raised, and
\* the persisted thread identifier is the one before the command.
C13_ExitEndsSessionQuietly ==
    /\ \A user_input \in Inputs :
          Command(user_input) = "exit" <=>
              user_input \in {"exit", "Exit", "QUIT", "quit"}
    /\ hist.cmd = "exit" =>
          /\ hist.typed \in {"exit", "Exit", "QUIT", "quit"}
          /\ pc = "done"
          /\ exit_code = 0
          /\ stored = hist.start_stored
          /\ thread_id = hist.start_thread
          /\ threads = hist.start_threads
          /\ hist.raised = {}
          /\ hist.log = <<>>
          /\ hist.listed = <<>>
          /\ hist.cancels = {}
          /\ hist.msgs = 0
          /\ hist.created = 0
          /\ hist.fetches = 0
          /\ hist.submits = 0
          /\ hist.displayed = 0

C13_Witness ==
    /\ hist.cmd = "exit"
    /\ hist.typed = "QUIT"
    /\ pc = "done"
    /\ exit_code = 0
    /\ turns = MaxTurns + 1
    /\ Len(runs) = 2
    /\ runs[2].status \in ActiveStatuses

\* ---------------------------------------------------------------- C14
\* The configurations with which __init__ raises before it reads the thread.
StartupErrors == Configs \ {"ok"}
\* The statements of reset_thread that can raise.
ResetSites == {"thread_create", "save"}

\* C14: the process has an exit code exactly when it has ended; the code is
\* 0 exactly when it ended on exit / quit or on a keyboard interrupt, and 1
\* otherwise, which happens only after a call raised at startup or in the
\* handler of process_user_input.  A missing credential or assistant
\* identifier and a failing assistant retrieval end the process with code 1
\* before any command is read, with no thread identifier read, no thread
\* created and the persisted identifier untouched.  In an ordinary turn an
\* exception of the recovery reset leaves process_user_input and ends the
\* process with code 1.
C14_ExitCodes ==
    /\ exit_code \in {-1, 0, 1}
    /\ pc = "done" <=> exit_code # -1
    /\ pc = "done" => (exit_code = 0 <=> hist.cmd \in {"exit", "interrupt"})
    /\ exit_code = 1 =>
          /\ hist.raised # {}
          /\ turns = 0 => frame = "init"
          /\ turns > 0 => (frame = "except" /\ hist.raised \cap ResetSites # {})
    /\ hist.raised \cap StartupErrors # {} =>
          /\ pc = "done"
          /\ exit_code = 1
          /\ turns = 0
          /\ thread_id = NoThread
          /\ threads = hist.start_threads
          /\ stored = hist.start_stored
          /\ hist.log = <<>>
    /\ (hist.cmd \in {"none", "message"} /\ hist.raised \cap ResetSites # {}) =>
          (pc = "done" /\ exit_code = 1)

C14_Witness ==
    /\ pc = "done"
    /\ exit_code = 1
    /\ turns = 2
    /\ hist.cmd = "message"
    /\ "retrieve" \in hist.raised
    /\ "save" \in hist.raised

\* ---------------------------------------------------------------- C15
\* C15: remote threads are never removed, and one is created only at a
\* startup that found no persisted identifier, in a reset command, or in an
\* ordinary turn after a call raised into the handler of process_user_input.
\* A startup that found a persisted identifier creates no thread, touches
\* neither the store nor the remote threads and reaches the prompt with that
\* identifier in memory; a turn in which no such call raised works on the
\* thread it started with.
C15_ThreadCreatedOnlyWhenNeeded ==
    /\ threads >= hist.start_threads
    /\ threads > hist.start_threads =>
          \/ hist.cmd = "none" /\ hist.start_stored = NoThread
          \/ hist.cmd = "reset"
          \/ hist.cmd = "message" /\ hist.raised \cap HandledSites # {}
    /\ (hist.cmd = "none" /\ hist.start_stored # NoThread) =>
          /\ threads = hist.start_threads
          /\ stored = hist.start_stored
          /\ hist.log = <<>>
          /\ pc \in {"start", "prompt", "done"}
          /\ pc = "prompt" => thread_id = hist.start_stored
    /\ (hist.cmd = "message" /\ hist.raised \cap HandledSites = {}) =>
          /\ thread_id = hist.start_thread
          /\ threads = hist.start_threads
          /\ \A i \in 1..Len(hist.submitted) :
                hist.submitted[i].thread_id = hist.start_thread

C15_Witness ==
    /\ pc = "prompt"
    /\ hist.cmd = "none"
    /\ hist.start_stored = 1
    /\ thread_id = 1
    /\ stored = 1
    /\ threads = 1
    /\ hist.log = <<>>

\* ---------------------------------------------------------------- C16
\* C16 as stated: once the cancel step of a turn is over (the message is
\* about to be posted, or later in the turn), a cancel request has been
\* issued for exactly the runs that runs.list reported as queued or
\* in_progress, also when a call of the cancel step raised.
C16_ListedActiveRunsCancelled ==
    (hist.cmd = "message" /\ pc \notin {"cancel_list", "cancel_loop"}) =>
        \A i \in 1..Len(hist.listed) :
            CancelEligible(hist.listed[i].status) <=>
                hist.listed[i].id \in hist.cancels

\* ---------------------------------------------------------------- C17
\* C17: wait_for_completion always ends.  A status is fetched only while the
\* elapsed time is below the timeout, and every iteration that has not
\* returned added at least the sleep interval to the elapsed time, also one
\* that fetched requires_action and submitted nothing; so whatever the remote
\* service and the tools do, a poll that has started leads to a return of
\* wait_for_completion (unless runs.retrieve raises, which leaves it by the
\* exception), and what it returns is the run, or None after one of the three
\* failure messages.
C17_PollAlwaysReturns ==
    /\ [](pc = "wfc_retrieve" => elapsed < Timeout)
    /\ [](pc \in PollPcs => hist.fetches * SleepInterval <= elapsed + SleepInterval)
    /\ [](pc = "wfc_return" =>
            \/ result = "Run" /\ notice = "none"
            \/ /\ result = "None"
               /\ notice \in {"Run ended with status", "Error handling tool calls",
                              "Run timed out"})
    /\ (pc \in PollPcs \cup {"wfc_start"}) ~>
            (pc = "wfc_return" \/ "retrieve" \in hist.raised)

C17_Witness ==
    /\ pc = "wfc_return"
    /\ notice = "Run timed out"
    /\ hist.raised = {}
    /\ hist.fetches = Timeout
    /\ hist.ra = hist.fetches
    /\ hist.registry = hist.ra
    /\ hist.submits = 0

\* ---------------------------------------------------------------- C18
\* C18 as stated: the poller is at its sleep only in an iteration whose fetch
\* observed queued or in_progress.
C18_SleepsOnlyWhenActive ==
    pc = "wfc_sleep" => hist.fetched.status \in ActiveStatuses

\* C18, amended: the poller sleeps at the end of every iteration that does
\* not return.  An iteration that fetched queued or in_progress goes to the
\* sleep at once; one that fetched requires_action goes to the tools and then,
\* whether it submitted outputs or had none to submit, to the sleep, unless a
\* tool or the submission raised, in which case it returns; no other
\* iteration sleeps; and whenever the loop test is evaluated every fetch made
\* so far has been followed by a sleep.
C18_SleepsUnlessReturned ==
    /\ hist.fetched.status \in ActiveStatuses => pc = "wfc_sleep"
    /\ hist.fetched.status = "requires_action" =>
          /\ pc \in {"wfc_tools", "wfc_sleep", "wfc_return"}
          /\ pc = "wfc_return" <=> hist.raised \cap {"tools", "submit"} # {}
    /\ pc = "wfc_sleep" =>
          /\ hist.fetched.status \in ActiveStatuses \cup {"requires_action"}
          /\ hist.registry = hist.ra
          /\ Len(hist.submitted) = (IF hist.fetched.calls # <<>> THEN 1 ELSE 0)
    /\ pc \in {"wfc_loop", "wfc_retrieve"} =>
          elapsed >= hist.fetches * SleepInterval

C18_Witness ==
    /\ pc = "wfc_sleep"
    /\ hist.fetched.status = "requires_action"
    /\ hist.fetched.calls = <<>>
    /\ hist.submitted = <<>>
    /\ hist.submits = 1
    /\ elapsed >= SleepInterval

\* ---------------------------------------------------------------- C19
\* C19: whenever the session loop is at the prompt, self.thread_id is a
\* thread of the remote service and is the persisted identifier: after
\* startup, after every turn and after every reset, also one whose thread
\* creation or save raised and was recovered by the handler's reset.
C19_PromptThreadPersisted ==
    pc = "prompt" =>
        /\ thread_id # NoThread
        /\ thread_id \in 1..threads
        /\ stored = thread_id

C19_Witness ==
    /\ pc = "prompt"
    /\ hist.cmd = "reset"
    /\ hist.raised = {"save"}
    /\ hist.log = <<"clear", "create", "clear", "create", "save">>
    /\ thread_id = hist.start_threads + 2
    /\ stored = thread_id

====
